---- MODULE Spec2Model ----
(***************************************************************************)
(* Model of the categorization service: the Categorizer                    *)
(* (src/categorization.py), the Queue Bridge callback, send_to_queue and   *)
(* store_categorization (src/main.py).                                     *)
(*                                                                         *)
(* The specifications share the module's variables:                        *)
(*   SpecCat      one call of categorize_text_with_tags_and_category on    *)
(*                inputs drawn from bounded sets;                          *)
(*   Spec         the consumer callback driven by the broker, one delivery *)
(*                at a time, with the oracle, the database and the broker  *)
(*                free to fail; SpecFair adds that possible steps are      *)
(*                eventually taken;                                        *)
(*   SpecStore    two concurrent store_categorization transactions;        *)
(*   SpecCrash    the consumer in a process that may stop and be started   *)
(*                again; SpecCrashFair adds the broker's and the           *)
(*                operator's fairness;                                     *)
(*   SpecHttp     the event-loop thread serving GET / and POST /categorize;*)
(*   SpecService  the event-loop thread beside the consumer's thread.      *)
(***************************************************************************)
EXTENDS Integers, Sequences, FiniteSets, TLC

VARIABLES
    args,            \* SpecCat: the arguments of the call
    ret,             \* SpecCat: the call's outcome ("pending" before it runs)
    body,            \* Spec: message id -> inbound message body
    queue,           \* Spec: transcription_queue, ready messages (ids)
    inflight,        \* Spec: the delivered, unsettled message id (0: none)
    pc,              \* Spec: position of the consumer callback
    loc,             \* Spec: the callback's locals (categorization_result)
    outq,            \* Spec: categorization_queue, published messages
    cur,             \* Spec: the current (or last) delivery and what it did
    msgs,            \* Spec: per message, its deliveries, rows and whether acked
    oracleCalls,     \* the number of invocations of the classifier
    categorization,  \* database: committed rows of table categorization
    category,        \* database: committed rows of table category
    links,           \* database: committed rows of categorization_category
    seqs,            \* database: the SERIAL sequences of the two id columns
    tx,              \* store_categorization: per writer, the open transaction
    stores,          \* the number of calls of store_categorization so far
    loop,            \* SpecHttp: what the event-loop thread is running
    reqs,            \* SpecHttp: HTTP requests accepted and not yet handled
    resp,            \* SpecHttp: the last HTTP response and how many were sent
    crashes          \* SpecCrash: how many times the process has stopped

catVars == <<args, ret, oracleCalls>>
bridgeVars == <<body, queue, inflight, pc, loc, outq, cur, msgs>>
dbVars == <<categorization, category, links, seqs>>
txVars == <<tx, stores>>
hostVars == <<loop, reqs, resp, crashes>>
vars == <<args, ret, oracleCalls, body, queue, inflight, pc, loc, outq, cur, msgs,
          categorization, category, links, seqs, tx, stores, loop, reqs, resp,
          crashes>>

(***************************************************************************)
(* Bounds of the model.                                                    *)
(***************************************************************************)
MaxTags == 2
MaxTopK == 3
MaxDeliveries == 2
MaxStores == 2
MaxRequests == 2
MaxCrashes == 1

\* The scores the oracle may give, abstracted to two levels.
ScoreValues == {1, 2}

(***************************************************************************)
(* Python values.  None is a value of its own; a label, a text or a        *)
(* category is a string; "not x" is true of None and of "".                *)
(***************************************************************************)
None == "<None>"

Range(s) == {s[i] : i \in 1..Len(s)}

Min(a, b) == IF a <= b THEN a ELSE b

Max(a, b) == IF a >= b THEN a ELSE b

NoDuplicates(s) == \A i, j \in 1..Len(s) : s[i] = s[j] => i = j

SeqsUpTo(S, n) == UNION {[1..k -> S] : k \in 0..n}

\* Variant of Truthy: an "is not None" test, which lets "" through.
TruthyNotNone(x) == x # None

Truthy(x) == x \notin {None, ""}

\* Variant of PySlice: no truncation.
PySliceWhole(s, k) == s

\* s[:k] of Python: the first k entries; a negative k counts from the end.
PySlice(s, k) ==
    IF k >= 0 THEN SubSeq(s, 1, Min(k, Len(s)))
    ELSE SubSeq(s, 1, Max(0, Len(s) + k))

\* zip(a, b) into {"category": label, "score": score} dictionaries.
ZipResult(ls, ss) ==
    [i \in 1..Min(Len(ls), Len(ss)) |-> [category |-> ls[i], score |-> ss[i]]]

(***************************************************************************)
(* categorize_text_with_tags_and_category                                  *)
(***************************************************************************)
\* The built-in taxonomy, abridged to two of its 45 entries.
DefaultLabels == <<"Esports", "True Crime">>

\* candidate_labels is [given |-> FALSE] for None, else the caller's list.
StartLabels(candidate_labels) ==
    IF candidate_labels.given THEN candidate_labels.list ELSE DefaultLabels

\* Variant of AppendIfAbsent: append without the membership test.
AppendAlways(labels, x) == Append(labels, x)

\* if x not in candidate_labels: candidate_labels.append(x)
AppendIfAbsent(labels, x) ==
    IF x \in Range(labels) THEN labels ELSE Append(labels, x)

AddCategory(labels, cat) ==
    IF Truthy(cat) THEN AppendIfAbsent(labels, cat) ELSE labels

RECURSIVE AddTags(_, _)
\* tags None and tags [] both skip the loop; both are the empty sequence here.
AddTags(labels, tags) ==
    IF tags = <<>> THEN labels
    ELSE AddTags(AppendIfAbsent(labels, Head(tags)), Tail(tags))

BuildLabelSet(candidate_labels, cat, tags) ==
    AddTags(AddCategory(StartLabels(candidate_labels), cat), tags)

\* Variant of TextRejected: only an absent text is refused.
TextRejectedNoneOnly(text) == text = None

\* if not text: raise ValueError
TextRejected(text) == ~Truthy(text)

\* The classification oracle (the zero-shot pipeline): it fails, or it returns
\* every candidate label re-ranked with non-increasing scores.  It refuses an
\* empty label list.
Rankings(labels) ==
    {[i \in 1..Len(labels) |-> labels[p[i]]] : p \in Permutations(1..Len(labels))}

ScoreSeqs(n) ==
    {s \in [1..n -> ScoreValues] : \A i \in 1..n - 1 : s[i] >= s[i + 1]}

OracleFailure == [ok |-> FALSE, labels |-> <<>>, scores |-> <<>>]

OracleResponses(labels) ==
    {OracleFailure} \cup
    IF labels = <<>> THEN {}
    ELSE {[ok |-> TRUE, labels |-> r, scores |-> s] :
            r \in Rankings(labels), s \in ScoreSeqs(Len(labels))}

\* The outcomes of one call: the assembled label list (the caller's list
\* object when one was passed), whether the oracle was invoked, its answer,
\* and the returned result.
CategorizeOutcomes(text, tags, cat, candidate_labels, top_k) ==
    LET labels == BuildLabelSet(candidate_labels, cat, tags)
    IN  IF TextRejected(text)
        THEN {[status |-> "ValueError", labels |-> labels, invoked |-> FALSE,
               oracle |-> OracleFailure, result |-> <<>>]}
        ELSE {[status |-> IF o.ok THEN "ok" ELSE "OracleError",
               labels |-> labels, invoked |-> TRUE, oracle |-> o,
               result |-> ZipResult(PySlice(o.labels, top_k),
                                    PySlice(o.scores, top_k))] :
                o \in OracleResponses(labels)}

(***************************************************************************)
(* SpecCat: one call of the Categorizer on inputs from bounded sets.       *)
(***************************************************************************)
Texts == {None, "", "texto"}

TagUniverse == {"", "IA", "Esports"}

Categories == {None, "", "IA", "Tecnologia"}

\* Caller-supplied label lists: duplicate-free, as the taxonomy is.
SuppliedLists == {<<>>, <<"IA">>, <<"Tecnologia", "IA">>, <<"IA", "Esports">>}

CandidateLabelArgs ==
    {[given |-> FALSE, list |-> <<>>]} \cup
    {[given |-> TRUE, list |-> l] : l \in SuppliedLists}

CatArgs ==
    [text : Texts, tags : SeqsUpTo(TagUniverse, MaxTags), category : Categories,
     candidate_labels : CandidateLabelArgs, top_k : -1..MaxTopK]

Pending ==
    [status |-> "pending", labels |-> <<>>, invoked |-> FALSE,
     oracle |-> OracleFailure, result |-> <<>>]

\* Values of the variables a specification does not use.
IdleTx ==
    [pc |-> "idle", result |-> <<>>, channel_id |-> None, video_id |-> None,
     audio_part |-> None, catzId |-> 0, i |-> 1, catIds |-> <<>>,
     newCats |-> {}, pendLinks |-> <<>>, error |-> FALSE, committed |-> FALSE]

Writers == {1, 2}

MsgIds == {1, 2}

\* What one delivery did: the steps that failed, whether the classifier was
\* invoked, store_categorization called and its transaction committed, whether
\* send_to_queue published and returned, how basic_ack and basic_nack ended;
\* and the counters as they stood when the delivery began.
NoDelivery ==
    [tag |-> 0, msg |-> 0, failures |-> {}, oracle |-> FALSE, stored |-> FALSE,
     committed |-> FALSE, sendOk |-> FALSE, published |-> FALSE,
     ack |-> "none", nack |-> "none", oracle0 |-> 0, stores0 |-> 0,
     rows0 |-> 0, out0 |-> 0]

\* Per message: its deliveries so far, the categorization rows committed in
\* them, and whether it was acked.
NoMessage == [deliveries |-> 0, rows |-> 0, acked |-> FALSE]

CatIdle ==
    /\ args = [text |-> None, tags |-> <<>>, category |-> None,
               candidate_labels |-> [given |-> FALSE, list |-> <<>>],
               top_k |-> 0]
    /\ ret = Pending

DbEmpty ==
    /\ categorization = {}
    /\ category = {}
    /\ links = <<>>
    /\ seqs = [categorization |-> 1, category |-> 1]
    /\ tx = [w \in Writers |-> IdleTx]
    /\ stores = 0

\* The event loop free, no HTTP request or response, the process never stopped.
FreeLoop == [handler |-> "none", transcription |-> None]

\* The last response: the request it answers, its status and content, and of
\* its handling the exception raised and whether the classifier was invoked.
NoResponse ==
    [n |-> 0, method |-> None, transcription |-> None, handled |-> FALSE,
     status |-> 0, message |-> None, category |-> <<>>, detail |-> None,
     raised |-> None, invoked |-> FALSE]

HostIdle ==
    /\ loop = FreeLoop
    /\ reqs = <<>>
    /\ resp = NoResponse
    /\ crashes = 0

BridgeIdle ==
    /\ body = [m \in MsgIds |-> None]
    /\ queue = <<>>
    /\ inflight = 0
    /\ pc = "idle"
    /\ loc = <<>>
    /\ outq = <<>>
    /\ cur = NoDelivery
    /\ msgs = [m \in MsgIds |-> NoMessage]

InitCat ==
    /\ args \in CatArgs
    /\ ret = Pending
    /\ oracleCalls = 0
    /\ BridgeIdle
    /\ DbEmpty
    /\ HostIdle

CallCategorize ==
    /\ ret.status = "pending"
    /\ \E o \in CategorizeOutcomes(args.text, args.tags, args.category,
                                   args.candidate_labels, args.top_k) :
        /\ ret' = o
        /\ oracleCalls' = IF o.invoked THEN oracleCalls + 1 ELSE oracleCalls
    /\ UNCHANGED <<args, bridgeVars, dbVars, txVars, hostVars>>

NextCat == CallCategorize

SpecCat == InitCat /\ [][NextCat]_vars

(***************************************************************************)
(* store_categorization: one transaction on a connection of its own.       *)
(* Rows written before the commit are the transaction's own (catzId,       *)
(* newCats, pendLinks); other transactions see committed rows only.        *)
(* A categorization row carries the result it was stored for (entries),    *)
(* which is no column of the table: the properties read it.                *)
(***************************************************************************)
StartTx(result, channel_id, video_id, audio_part) ==
    [pc |-> "connect", result |-> result, channel_id |-> channel_id,
     video_id |-> video_id, audio_part |-> audio_part, catzId |-> 0, i |-> 1,
     catIds |-> <<>>, newCats |-> {}, pendLinks |-> <<>>, error |-> FALSE,
     committed |-> FALSE]

\* The rows a transaction has written so far.
PendingRows(t) ==
    [categorization |->
        IF t.catzId = 0 THEN {}
        ELSE {[id |-> t.catzId, channel_id |-> t.channel_id,
               video_id |-> t.video_id, audio_part |-> t.audio_part,
               entries |-> [k \in 1..Len(t.result) |->
                              t.result[k].category]]},
     category |-> t.newCats,
     links |-> t.pendLinks]

NoRows == [categorization |-> {}, category |-> {}, links |-> <<>>]

\* Variant of RowsKeptOnClose: a connection in autocommit mode keeps them.
RowsKeptAutocommit(t) == PendingRows(t)

\* except: log; finally: connection.close().  Closing a connection whose
\* transaction was not committed discards what the transaction wrote.
RowsKeptOnClose(t) == NoRows

\* The except branch: the error is logged and swallowed, the connection closed.
Swallow(w) ==
    /\ tx' = [tx EXCEPT ![w].pc = "returned", ![w].error = TRUE]
    /\ categorization' = categorization \cup RowsKeptOnClose(tx[w]).categorization
    /\ category' = category \cup RowsKeptOnClose(tx[w]).category
    /\ links' = links \o RowsKeptOnClose(tx[w]).links

\* psycopg2.connect.  When it fails, the name connection is unbound in the
\* finally block, whose "if connection:" raises UnboundLocalError out of
\* store_categorization.
Connect(w) ==
    /\ tx[w].pc = "connect"
    /\ \E ok \in BOOLEAN :
        tx' = IF ok THEN [tx EXCEPT ![w].pc = "insert"]
              ELSE [tx EXCEPT ![w].pc = "raised", ![w].error = TRUE]
    /\ UNCHANGED <<catVars, bridgeVars, stores, dbVars, hostVars>>

\* channel_id and video_id are NOT NULL.
ViolatesNotNull(t) == t.channel_id = None \/ t.video_id = None

AfterEntry(t, k) == IF k > Len(t.result) THEN "links" ELSE "upsert"

\* Step 1: INSERT INTO categorization ... RETURNING id.
InsertCategorization(w) ==
    /\ tx[w].pc = "insert"
    /\ \E ok \in BOOLEAN :
        IF ok /\ ~ViolatesNotNull(tx[w])
        THEN /\ tx' = [tx EXCEPT ![w].catzId = seqs.categorization,
                                 ![w].pc = AfterEntry(tx[w], 1)]
             /\ seqs' = [seqs EXCEPT !.categorization = @ + 1]
             /\ UNCHANGED <<categorization, category, links>>
        ELSE /\ Swallow(w)
             /\ UNCHANGED seqs
    /\ UNCHANGED <<catVars, bridgeVars, stores, hostVars>>

\* Variant of ExistingIds: a plain INSERT on a table without the constraint.
ExistingIdsNoConstraint(w, name) == {}

\* name is UNIQUE: the ids of the row of that name this transaction sees
\* (committed, or written by itself).
ExistingIds(w, name) ==
    {r.id : r \in {x \in category \cup tx[w].newCats : x.name = name}}

\* Another open transaction has inserted that name: the insert waits for it
\* to end.
BlockedOn(w, name) ==
    \E v \in Writers \ {w} :
        /\ tx[v].pc \in {"upsert", "links", "commit"}
        /\ \E r \in tx[v].newCats : r.name = name

\* Step 2, one iteration: if category_name: INSERT INTO category ...
\* ON CONFLICT (name) DO UPDATE ... RETURNING id.
UpsertCategory(w) ==
    /\ tx[w].pc = "upsert"
    /\ LET t == tx[w]
           name == t.result[t.i].category
       IN  IF ~Truthy(name)
           THEN /\ tx' = [tx EXCEPT ![w].i = @ + 1,
                                    ![w].pc = AfterEntry(t, t.i + 1)]
                /\ UNCHANGED dbVars
           ELSE \E ok \in BOOLEAN :
                  IF ~ok
                  THEN Swallow(w) /\ UNCHANGED seqs
                  ELSE IF ExistingIds(w, name) # {}
                  THEN /\ \E id \in ExistingIds(w, name) :
                            tx' = [tx EXCEPT ![w].catIds = Append(@, id),
                                             ![w].i = @ + 1,
                                             ![w].pc = AfterEntry(t, t.i + 1)]
                       /\ UNCHANGED dbVars
                  ELSE /\ ~BlockedOn(w, name)
                       /\ tx' = [tx EXCEPT
                                   ![w].catIds = Append(@, seqs.category),
                                   ![w].newCats =
                                       @ \cup {[id |-> seqs.category,
                                                name |-> name]},
                                   ![w].i = @ + 1,
                                   ![w].pc = AfterEntry(t, t.i + 1)]
                       /\ seqs' = [seqs EXCEPT !.category = @ + 1]
                       /\ UNCHANGED <<categorization, category, links>>
    /\ UNCHANGED <<catVars, bridgeVars, stores, hostVars>>

\* Step 3: execute_values of one link row per category id (no statement is
\* sent for an empty list).
InsertLinks(w) ==
    /\ tx[w].pc = "links"
    /\ LET t == tx[w]
           rows == [k \in 1..Len(t.catIds) |->
                       [categorization_id |-> t.catzId,
                        category_id |-> t.catIds[k]]]
       IN  \E ok \in BOOLEAN :
             IF ok \/ rows = <<>>
             THEN /\ tx' = [tx EXCEPT ![w].pendLinks = rows, ![w].pc = "commit"]
                  /\ UNCHANGED dbVars
             ELSE Swallow(w) /\ UNCHANGED seqs
    /\ UNCHANGED <<catVars, bridgeVars, stores, hostVars>>

\* connection.commit(), then finally: close.
Commit(w) ==
    /\ tx[w].pc = "commit"
    /\ \E ok \in BOOLEAN :
        IF ok
        THEN /\ categorization' =
                    categorization \cup PendingRows(tx[w]).categorization
             /\ category' = category \cup PendingRows(tx[w]).category
             /\ links' = links \o PendingRows(tx[w]).links
             /\ tx' = [tx EXCEPT ![w].pc = "returned", ![w].committed = TRUE]
        ELSE Swallow(w)
    /\ UNCHANGED <<catVars, bridgeVars, stores, seqs, hostVars>>

StoreStep(w) ==
    \/ Connect(w)
    \/ InsertCategorization(w)
    \/ UpsertCategory(w)
    \/ InsertLinks(w)
    \/ Commit(w)

(***************************************************************************)
(* SpecStore: two writers call store_categorization, concurrently, on      *)
(* results drawn from a small set.                                         *)
(***************************************************************************)
Entry(name) == [category |-> name, score |-> 1]

StoreResults ==
    {<<Entry("A")>>, <<Entry("A"), Entry("B")>>, <<Entry("B"), Entry("A")>>,
     <<Entry(""), Entry("B")>>}

StoreChannels == {None, "ch1"}

InitStore ==
    /\ CatIdle
    /\ oracleCalls = 0
    /\ BridgeIdle
    /\ DbEmpty
    /\ HostIdle

BeginStore(w) ==
    /\ tx[w].pc = "idle"
    /\ stores < MaxStores
    /\ \E r \in StoreResults, c \in StoreChannels :
        tx' = [tx EXCEPT ![w] = StartTx(r, c, "v1", "p1")]
    /\ stores' = stores + 1
    /\ UNCHANGED <<catVars, bridgeVars, dbVars, hostVars>>

EndStore(w) ==
    /\ tx[w].pc \in {"returned", "raised"}
    /\ tx' = [tx EXCEPT ![w] = IdleTx]
    /\ UNCHANGED <<catVars, bridgeVars, stores, dbVars, hostVars>>

NextStore ==
    \/ \E w \in Writers : BeginStore(w)
    \/ \E w \in Writers : StoreStep(w)
    \/ \E w \in Writers : EndStore(w)

SpecStore == InitStore /\ [][NextStore]_vars

(***************************************************************************)
(* The Queue Bridge: consume_messages.callback and send_to_queue.          *)
(* The broker holds transcription_queue; a delivered message stays with    *)
(* the broker, unsettled (inflight), until it is acked or nacked.          *)
(***************************************************************************)
DefaultTopK == 10

\* A body that is no UTF-8 JSON object: json.loads, or .get, raises.
Garbled ==
    [decodable |-> FALSE, transcription |-> None, tags |-> <<>>,
     category |-> None, channelId |-> None, videoId |-> None,
     audioPart |-> None]

Message(text, tags, cat, channel) ==
    [decodable |-> TRUE, transcription |-> text, tags |-> tags,
     category |-> cat, channelId |-> channel, videoId |-> "v1",
     audioPart |-> "p1"]

\* The inbound bodies of the model: garbled, without transcription (with tags),
\* with an empty one (with a category), complete, and without channelId.
Bodies ==
    {Garbled,
     Message(None, <<"IA">>, None, "ch1"),
     Message("", <<>>, "IA", "ch1"),
     Message("texto", <<>>, None, "ch1"),
     Message("texto", <<>>, None, None)}

\* The number of committed rows of the three tables.
TableRows == Cardinality(categorization) + Cardinality(category) + Len(links)

NewDelivery(m) ==
    [NoDelivery EXCEPT !.tag = cur.tag + 1, !.msg = m,
                       !.oracle0 = oracleCalls, !.stores0 = stores,
                       !.rows0 = TableRows,
                       !.out0 = Len(outq)]

Fail(step) == [cur EXCEPT !.failures = @ \cup {step}]

Init ==
    /\ CatIdle
    /\ oracleCalls = 0
    /\ body \in [MsgIds -> Bodies]
    /\ queue = <<1, 2>>
    /\ inflight = 0
    /\ pc = "idle"
    /\ loc = <<>>
    /\ outq = <<>>
    /\ cur = NoDelivery
    /\ msgs = [m \in MsgIds |-> NoMessage]
    /\ DbEmpty
    /\ HostIdle

ConcurrentDispatch == pc # "dead"

\* start_consuming calls the callback on its own thread, one delivery at a
\* time: the next call comes after the previous one has returned.
SequentialDispatch == pc = "idle" /\ inflight = 0

\* The broker delivers the head of the queue; one callback runs at a time.
Deliver ==
    /\ SequentialDispatch
    /\ queue # <<>>
    /\ cur.tag < MaxDeliveries
    /\ inflight' = Head(queue)
    /\ queue' = Tail(queue)
    /\ cur' = NewDelivery(Head(queue))
    /\ msgs' = [msgs EXCEPT ![Head(queue)].deliveries = @ + 1]
    /\ pc' = "decode"
    /\ UNCHANGED <<catVars, body, loc, outq, dbVars, txVars, hostVars>>

\* message_data = json.loads(body.decode("utf-8")) and the .get calls.
Decode ==
    /\ pc = "decode"
    /\ IF body[inflight].decodable
       THEN pc' = "validate" /\ UNCHANGED cur
       ELSE pc' = "except" /\ cur' = Fail("decode")
    /\ UNCHANGED <<catVars, body, queue, inflight, loc, outq, msgs, dbVars, txVars, hostVars>>

\* if not transcription_text: raise ValueError
MissingTranscription(m) == ~Truthy(m.transcription)

Validate ==
    /\ pc = "validate"
    /\ IF MissingTranscription(body[inflight])
       THEN pc' = "except" /\ cur' = Fail("validation")
       ELSE pc' = "categorize" /\ UNCHANGED cur
    /\ UNCHANGED <<catVars, body, queue, inflight, loc, outq, msgs, dbVars, txVars, hostVars>>

\* categorize_text_with_tags_and_category(text, tags=..., category=...)
Categorize ==
    /\ pc = "categorize"
    /\ LET m == body[inflight]
       IN  \E o \in CategorizeOutcomes(m.transcription, m.tags, m.category,
                                       [given |-> FALSE, list |-> <<>>],
                                       DefaultTopK) :
             /\ oracleCalls' = IF o.invoked THEN oracleCalls + 1
                               ELSE oracleCalls
             /\ IF o.status = "ok"
                THEN /\ loc' = o.result
                     /\ pc' = "store"
                     /\ cur' = [cur EXCEPT !.oracle = o.invoked]
                ELSE /\ loc' = <<>>
                     /\ pc' = "except"
                     /\ cur' = [cur EXCEPT
                                   !.oracle = o.invoked,
                                   !.failures = @ \cup {"classification"}]
    /\ UNCHANGED <<args, ret, body, queue, inflight, outq, msgs, dbVars, txVars, hostVars>>

\* store_categorization(categorization_result, channel_id, video_id, audio_part)
CallStore ==
    /\ pc = "store"
    /\ tx[1].pc = "idle"
    /\ LET m == body[inflight]
       IN  tx' = [tx EXCEPT ![1] = StartTx(loc, m.channelId, m.videoId,
                                           m.audioPart)]
    /\ stores' = stores + 1
    /\ pc' = "storing"
    /\ cur' = [cur EXCEPT !.stored = TRUE]
    /\ UNCHANGED <<catVars, body, queue, inflight, loc, outq, msgs, dbVars, hostVars>>

\* The call returns (also after a swallowed database error) or raises.
StoreReturns ==
    /\ pc = "storing"
    /\ tx[1].pc \in {"returned", "raised"}
    /\ pc' = IF tx[1].pc = "raised" THEN "except" ELSE "publish"
    /\ cur' = [cur EXCEPT
                  !.committed = tx[1].committed,
                  !.failures = IF tx[1].error THEN @ \cup {"persistence"}
                                    ELSE @]
    /\ msgs' = [msgs EXCEPT ![inflight].rows =
                                IF tx[1].committed THEN @ + 1 ELSE @]
    /\ tx' = [tx EXCEPT ![1] = IdleTx]
    /\ UNCHANGED <<catVars, body, queue, inflight, loc, outq, dbVars, stores, hostVars>>

\* The message send_to_queue publishes.
Enriched(m, result) ==
    [categorization_result |-> result, channelId |-> m.channelId,
     videoId |-> m.videoId, audio_part |-> m.audioPart,
     transcription |-> m.transcription]

\* send_to_queue: the connection, declarations or basic_publish fail
\* ("failed"), or the message is published and then connection.close()
\* returns ("sent") or raises ("sent_close_failed").
SendOutcomes == {"sent", "failed", "sent_close_failed"}

SendPublished(o) == o \in {"sent", "sent_close_failed"}

\* Variant of SendRaises: the except branch logs without re-raising.
SendNeverRaises(o) == FALSE

\* except Exception as e: log; raise e
SendRaises(o) == o # "sent"

Publish ==
    /\ pc = "publish"
    /\ \E o \in SendOutcomes :
        /\ outq' = IF SendPublished(o)
                   THEN Append(outq, Enriched(body[inflight], loc))
                   ELSE outq
        /\ pc' = IF SendRaises(o) THEN "except" ELSE "ack"
        /\ cur' = [cur EXCEPT
                      !.published = SendPublished(o),
                      !.sendOk = (o = "sent"),
                      !.failures = IF o = "sent" THEN @
                                        ELSE @ \cup {"publish"}]
    /\ UNCHANGED <<catVars, body, queue, inflight, loc, msgs, dbVars, txVars, hostVars>>

\* Variant of AfterAck: the nack in a finally clause, run on every path.
AfterAckFinally(ok) == "except"

\* basic_ack is the last statement of the try block: when it returns the
\* callback returns, when it raises the except clause runs.
AfterAck(ok) == IF ok THEN "idle" ELSE "except"

\* ch.basic_ack(delivery_tag): the broker drops the message, or the call raises.
Ack ==
    /\ pc = "ack"
    /\ \E ok \in BOOLEAN :
        IF ok
        THEN /\ inflight' = 0
             /\ pc' = AfterAck(ok)
             /\ loc' = <<>>
             /\ cur' = [cur EXCEPT !.ack = "ok"]
             /\ msgs' = [msgs EXCEPT ![inflight].acked = TRUE]
        ELSE /\ pc' = AfterAck(ok)
             /\ cur' = [cur EXCEPT !.ack = "raised",
                                   !.failures = @ \cup {"ack"}]
             /\ UNCHANGED <<inflight, loc, msgs>>
    /\ UNCHANGED <<catVars, body, queue, outq, dbVars, txVars, hostVars>>

\* Variant of NackRequeue: requeue=False.
NackDrops == FALSE

\* basic_nack(..., requeue=True)
NackRequeue == TRUE

\* Where the broker puts a requeued message.
Requeued(m) ==
    IF NackRequeue THEN {<<m>> \o queue, queue \o <<m>>} ELSE {queue}

\* except Exception: log; ch.basic_nack(delivery_tag, requeue=True).  When
\* the nack itself raises, the exception leaves the callback and
\* start_consuming ends.
Nack ==
    /\ pc = "except"
    /\ \E ok \in BOOLEAN :
        IF ok
        THEN /\ queue' \in Requeued(inflight)
             /\ inflight' = 0
             /\ pc' = "idle"
             /\ cur' = [cur EXCEPT !.nack = "ok"]
        ELSE /\ pc' = "dead"
             /\ cur' = [cur EXCEPT !.nack = "raised"]
             /\ UNCHANGED <<queue, inflight>>
    /\ loc' = <<>>
    /\ UNCHANGED <<catVars, body, outq, msgs, dbVars, txVars, hostVars>>

\* Variant of UnackedReturns: auto_ack=True, a delivery is settled on sending.
UnackedDiscarded(m) == queue

\* auto_ack=False: a delivery stays with the broker until it is acked, and goes
\* back to the queue when its consumer's connection is gone.
UnackedReturns(m) == <<m>> \o queue

\* The broker requeues what a consumer that is gone left unsettled: its loop
\* ended, or its process stopped (and may be running again, idle, on a new
\* connection).
ConnectionLost ==
    /\ pc \in {"dead", "stopped", "idle"}
    /\ inflight # 0
    /\ queue' = UnackedReturns(inflight)
    /\ inflight' = 0
    /\ UNCHANGED <<catVars, body, pc, loc, outq, cur, msgs, dbVars, txVars, hostVars>>

Next ==
    \/ Deliver
    \/ Decode
    \/ Validate
    \/ Categorize
    \/ CallStore
    \/ \E w \in Writers : StoreStep(w)
    \/ StoreReturns
    \/ Publish
    \/ Ack
    \/ Nack
    \/ ConnectionLost

Spec == Init /\ [][Next]_vars

\* The callback's thread keeps running, the broker keeps delivering what is
\* ready to a consuming channel and requeues what a closed one left: a step
\* that is possible is eventually taken.
SpecFair == Spec /\ WF_vars(Next)

(***************************************************************************)
(* SpecCrash: the consumer with one complete message in the queue, in a    *)
(* process that may stop at any point (shutdown or crash) and be started   *)
(* again.                                                                  *)
(***************************************************************************)
InitOne ==
    /\ CatIdle
    /\ oracleCalls = 0
    /\ body = [m \in MsgIds |-> Message("texto", <<>>, None, "ch1")]
    /\ queue = <<1>>
    /\ inflight = 0
    /\ pc = "idle"
    /\ loc = <<>>
    /\ outq = <<>>
    /\ cur = NoDelivery
    /\ msgs = [m \in MsgIds |-> NoMessage]
    /\ DbEmpty
    /\ HostIdle

\* The process stops wherever the callback is.  Its locals are gone and the
\* database rolls back the transaction of the closed connection; what was
\* committed or published stays.
Crash ==
    /\ pc # "stopped"
    /\ crashes < MaxCrashes
    /\ crashes' = crashes + 1
    /\ pc' = "stopped"
    /\ loc' = <<>>
    /\ tx' = [tx EXCEPT ![1] = IdleTx]
    /\ msgs' = IF inflight # 0 /\ tx[1].committed
               THEN [msgs EXCEPT ![inflight].rows = @ + 1]
               ELSE msgs
    /\ UNCHANGED <<catVars, body, queue, inflight, outq, cur, dbVars, stores,
                   loop, reqs, resp>>

\* The service is started again: lifespan creates the consumer task, which
\* connects and consumes.
Restart ==
    /\ pc = "stopped"
    /\ pc' = "idle"
    /\ UNCHANGED <<catVars, body, queue, inflight, loc, outq, cur, msgs, dbVars,
                   txVars, hostVars>>

NextCrash ==
    \/ Next
    \/ Crash
    \/ Restart

SpecCrash == InitOne /\ [][NextCrash]_vars

\* The broker notices a closed connection, a stopped service is started again,
\* and a ready message is delivered to a waiting consumer.
FairCrash ==
    /\ WF_vars(ConnectionLost)
    /\ WF_vars(Restart)
    /\ WF_vars(Deliver)

SpecCrashFair == SpecCrash /\ FairCrash

(***************************************************************************)
(* The HTTP interface (main.py:247-263) beside the consumer.  root and     *)
(* categorize_text_request are coroutines of the event loop: a handler     *)
(* that never awaits runs to its end on the event-loop thread, and no      *)
(* other coroutine is resumed meanwhile.  The consumer callback runs on    *)
(* the executor thread that run_in_executor gave to start_consuming.       *)
(***************************************************************************)
HealthCheck == [method |-> "GET", path |-> "/", transcription |-> None]

\* TranscriptionRequest: the body field transcription, a str.
TranscriptionRequest(t) ==
    [method |-> "POST", path |-> "/categorize", transcription |-> t]

\* A body without the field is TranscriptionRequest(None).
Requests ==
    {HealthCheck} \cup {TranscriptionRequest(t) : t \in {None, "", "texto"}}

Remove(s, i) == SubSeq(s, 1, i - 1) \o SubSeq(s, i + 1, Len(s))

\* The event-loop thread is between coroutine steps.
LoopFree == loop.handler = "none"

BeingHandled == IF LoopFree THEN 0 ELSE 1

\* A client's request reaches the server.
HttpRequest ==
    /\ resp.n + Len(reqs) + BeingHandled < MaxRequests
    /\ \E r \in Requests : reqs' = Append(reqs, r)
    /\ UNCHANGED <<catVars, bridgeVars, dbVars, txVars, loop, resp, crashes>>

\* GET /: return {"message": "Categorization Service is running"}
root ==
    /\ LoopFree
    /\ \E i \in 1..Len(reqs) :
        /\ reqs[i] = HealthCheck
        /\ reqs' = Remove(reqs, i)
        /\ resp' = [NoResponse EXCEPT
                       !.n = resp.n + 1, !.method = "GET", !.status = 200,
                       !.message = "Categorization Service is running"]
    /\ UNCHANGED <<catVars, bridgeVars, dbVars, txVars, loop, crashes>>

\* POST /categorize: a body that is no TranscriptionRequest is answered 422 by
\* the framework; otherwise the event loop enters categorize_text_request,
\* which calls the Categorizer without awaiting.
categorize_text_request ==
    /\ LoopFree
    /\ \E i \in 1..Len(reqs) :
        /\ reqs[i].method = "POST"
        /\ reqs' = Remove(reqs, i)
        /\ IF reqs[i].transcription = None
           THEN /\ resp' = [NoResponse EXCEPT
                               !.n = resp.n + 1, !.method = "POST",
                               !.status = 422]
                /\ UNCHANGED loop
           ELSE /\ loop' = [handler |-> "categorize_text_request",
                            transcription |-> reqs[i].transcription]
                /\ UNCHANGED resp
    /\ UNCHANGED <<catVars, bridgeVars, dbVars, txVars, crashes>>

\* str(e) of the exception the Categorizer raised.
ExceptionText(o) ==
    IF o.status = "ValueError" THEN "Input text cannot be empty"
    ELSE "classifier error"

HandlerResponseAlwaysOk(o) ==
    [status |-> 200, category |-> o.result, detail |-> None]

\* return {"category": category}; except Exception as e: raise
\* HTTPException(status_code=500, detail=str(e))
HandlerResponse(o) ==
    IF o.status = "ok"
    THEN [status |-> 200, category |-> o.result, detail |-> None]
    ELSE [status |-> 500, category |-> <<>>, detail |-> ExceptionText(o)]

\* The Categorizer returns or raises, and the handler answers.
CategorizeResponse ==
    /\ loop.handler = "categorize_text_request"
    /\ \E o \in CategorizeOutcomes(loop.transcription, <<>>, None,
                                   [given |-> FALSE, list |-> <<>>],
                                   DefaultTopK) :
        /\ oracleCalls' = IF o.invoked THEN oracleCalls + 1 ELSE oracleCalls
        /\ resp' = [NoResponse EXCEPT
                       !.n = resp.n + 1, !.method = "POST",
                       !.transcription = loop.transcription,
                       !.handled = TRUE,
                       !.status = HandlerResponse(o).status,
                       !.category = HandlerResponse(o).category,
                       !.detail = HandlerResponse(o).detail,
                       !.raised = IF o.status = "ok" THEN None ELSE o.status,
                       !.invoked = o.invoked]
    /\ loop' = FreeLoop
    /\ UNCHANGED <<args, ret, bridgeVars, dbVars, txVars, reqs, crashes>>

\* SpecHttp: the event-loop thread alone, serving HTTP requests.
InitHttp ==
    /\ CatIdle
    /\ oracleCalls = 0
    /\ BridgeIdle
    /\ DbEmpty
    /\ HostIdle

NextHttp ==
    \/ HttpRequest
    \/ root
    \/ categorize_text_request
    \/ CategorizeResponse

SpecHttp == InitHttp /\ [][NextHttp]_vars

\* SpecService: the event-loop thread and the consumer's executor thread, with
\* one complete message in transcription_queue.

NextService == Next \/ NextHttp

SpecService == InitOne /\ [][NextService]_vars

(***************************************************************************)
(* Properties of the Queue Bridge, checked under Spec.                     *)
(***************************************************************************)
\* The callback of the current delivery has ended.
Done == cur.tag > 0 /\ pc \in {"idle", "dead"}

\* The published message at position k carries message m.
Carries(k, m) ==
    /\ outq[k].transcription = body[m].transcription
    /\ outq[k].channelId = body[m].channelId
    /\ outq[k].videoId = body[m].videoId
    /\ outq[k].audio_part = body[m].audioPart

\* C1: basic_ack is called for a delivery only after send_to_queue has
\* published that delivery's enriched message and returned; a send_to_queue
\* that raised never leads to the ack.
C1_AckOnlyAfterPublish ==
    /\ (cur.ack # "none" \/ pc = "ack") =>
          /\ cur.sendOk
          /\ cur.published
          /\ Len(outq) = cur.out0 + 1
          /\ Carries(Len(outq), cur.msg)
    /\ "publish" \in cur.failures => cur.ack = "none" /\ pc # "ack"
    /\ \A m \in MsgIds :
          msgs[m].acked => \E k \in 1..Len(outq) : Carries(k, m)

C1_Witness ==
    /\ cur.tag = 2
    /\ cur.ack = "ok"
    /\ msgs[cur.msg].deliveries = 2
    /\ Len(outq) = 1

ProcessingSteps ==
    {"decode", "validation", "classification", "persistence", "publish"}

\* C2: a delivery in which a processing step failed (decode, validation,
\* classification, persistence or publish) is nacked and not acked.
C2_EveryFailureNacks ==
    (Done /\ cur.failures \cap ProcessingSteps # {}) =>
        cur.nack # "none" /\ cur.ack = "none"

\* C3: a delivery is published or acknowledged only if its categorization
\* was committed to the store during that delivery.
C3_PublishedOnlyIfCommitted ==
    (cur.published \/ cur.ack # "none") => cur.committed

\* C4: a delivery of a message whose transcription is missing or empty is
\* nacked with requeue (the message is back in the queue) and never acked, and
\* during it the classifier is not invoked, store_categorization writes
\* nothing and nothing is published.
C4_MissingTranscription ==
    (cur.tag > 0 /\ body[cur.msg].decodable
                 /\ body[cur.msg].transcription \in {None, ""}) =>
        /\ cur.ack = "none"
        /\ ~cur.oracle /\ oracleCalls = cur.oracle0
        /\ ~cur.stored /\ stores = cur.stores0 /\ TableRows = cur.rows0
        /\ ~cur.published /\ Len(outq) = cur.out0
        /\ Done => cur.nack # "none"
        /\ (Done /\ cur.nack = "ok") => cur.msg \in Range(queue)

C4_Witness ==
    /\ Done
    /\ cur.tag = 2
    /\ body[cur.msg].transcription = ""
    /\ cur.nack = "ok"
    /\ cur.oracle0 = 1
    /\ cur.rows0 > 0
    /\ cur.out0 = 1

\* A message whose processing fails whenever it is delivered.
Poison(m) ==
    ~body[m].decodable \/ body[m].transcription \in {None, ""}

Copies(m) == Cardinality({k \in 1..Len(queue) : queue[k] = m})

C5_NeverAckedNorDropped ==
    \A m \in MsgIds :
        /\ Poison(m) => ~msgs[m].acked
        /\ ~msgs[m].acked => Copies(m) + (IF inflight = m THEN 1 ELSE 0) = 1
        /\ msgs[m].acked => Copies(m) = 0 /\ inflight # m

\* No count of earlier deliveries keeps a queued message from being delivered.
C5_NoRetryLimit ==
    (pc = "idle" /\ inflight = 0 /\ queue # <<>> /\ cur.tag < MaxDeliveries) =>
        ENABLED Deliver

C5_NackRequeues ==
    (pc = "except" /\ cur'.nack = "ok") =>
        /\ cur.msg \in Range(queue')
        /\ inflight' = 0
        /\ pc' = "idle"

Unsettled ==
    {m \in MsgIds :
        /\ msgs[m].deliveries > 0
        /\ ~msgs[m].acked
        /\ Copies(m) = 0}

C14_AtMostOneUnsettled ==
    /\ Cardinality(Unsettled) <= 1
    /\ Unsettled \subseteq {inflight}

C14_NextAfterSettled ==
    cur'.tag # cur.tag =>
        /\ cur'.msg = Head(queue)
        /\ cur.tag > 0 => cur.ack = "ok" \/ cur.nack = "ok"

\* C14: at most one delivery is between its receipt and its ack/nack, and the
\* callback of the next delivery, the head of the queue, starts only after the
\* previous delivery has been acked or nacked.
C14_OneAtATime == []C14_AtMostOneUnsettled /\ [][C14_NextAfterSettled]_vars

\* The second message is in the callback, after the first one was nacked and
\* put behind it.
C14_Witness ==
    /\ cur.tag = 2
    /\ cur.msg = 2
    /\ pc = "categorize"
    /\ msgs[1].deliveries = 1
    /\ queue = <<1>>

\* C11: over any failures, nacks and redeliveries at most one categorization
\* row is committed for an inbound message, and exactly one exists when the
\* message is acknowledged.
C11_OneRowPerMessage ==
    \A m \in MsgIds :
        /\ msgs[m].rows <= 1
        /\ msgs[m].acked => msgs[m].rows = 1

\* The first half alone: a redelivery never commits a second row.
C11_AtMostOneRow == \A m \in MsgIds : msgs[m].rows <= 1

\* C16: on a database failure at any point of store_categorization (connect,
\* insert or commit) the call returns normally, and the callback goes on to
\* publish and acknowledge: the failure by itself never leads to the nack.
C16_StoreFailureReturns ==
    /\ \A w \in Writers : tx[w].error => tx[w].pc = "returned"
    /\ (/\ "persistence" \in cur.failures
        /\ cur.failures \cap {"publish", "ack"} = {})
          => /\ pc \notin {"except", "dead"}
             /\ cur.nack = "none"

\* The callback of the current delivery has returned.
Returned == cur.tag > 0 /\ pc = "idle"

AckedOrCapped(m) == msgs[m].acked \/ cur.tag >= MaxDeliveries

\* C19: under fair scheduling every inbound message with a non-empty
\* transcription is eventually acknowledged (here: unless the deliveries of
\* the bounded run are used up first), and when it is, an outbound message
\* carrying its result, channelId, videoId, audio_part and transcription has
\* been published.
C19_EventuallyAcked ==
    /\ \A m \in MsgIds : ~Poison(m) ~> AckedOrCapped(m)
    /\ [](\A m \in MsgIds :
            msgs[m].acked => \E k \in 1..Len(outq) : Carries(k, m))

\* The same in a form a finite run refutes: while a message with a non-empty
\* transcription is unacknowledged and deliveries are left, the service can
\* take a step.
C19_CanProgress ==
    (\E m \in MsgIds : ~Poison(m) /\ ~AckedOrCapped(m)) => ENABLED Next

(***************************************************************************)
(* Properties of the consumer across process stops, checked under          *)
(* SpecCrashFair.                                                          *)
(***************************************************************************)
\* Where an inbound message is: ready in the queue, or delivered and unsettled.
Held(m) == Copies(m) + (IF inflight = m THEN 1 ELSE 0)

\* A message is gone from transcription_queue exactly when it was acked.
C17_LeavesOnlyByAck ==
    \A m \in MsgIds :
        (msgs[m].deliveries > 0 \/ Copies(m) > 0) =>
            Held(m) = (IF msgs[m].acked THEN 0 ELSE 1)

\* The process stopped with a delivery of m unsettled.
StoppedInFlight(m) == pc = "stopped" /\ inflight = m /\ cur.tag < MaxDeliveries

\* The callback has just been called with a delivery of m.
Redelivered(m) == pc = "decode" /\ inflight = m

\* C17: no inbound message is lost on shutdown or crash: a message leaves the
\* queue only through an ack, and a delivery that is in flight when the
\* process stops is delivered again after the restart.
C17_NoMessageLost ==
    /\ []C17_LeavesOnlyByAck
    /\ \A m \in MsgIds : StoppedInFlight(m) ~> Redelivered(m)

\* The message was in flight when the process stopped, and is in the callback
\* again after the restart.
C17_Witness ==
    /\ crashes = 1
    /\ cur.tag = 2
    /\ cur.msg = 1
    /\ msgs[1].deliveries = 2
    /\ pc = "publish"
    /\ cur.nack = "none"
    /\ oracleCalls = 2

(***************************************************************************)
(* Properties of the HTTP interface, checked under SpecHttp and            *)
(* SpecService.                                                            *)
(***************************************************************************)
\* The classifier has been called and has not returned yet, in the consumer
\* callback or in the POST /categorize handler.
Classifying == pc = "categorize" \/ loop.handler = "categorize_text_request"

\* C12: in every state where a classification is in progress, a waiting GET /
\* request can still be served.
C12_HealthCheckNotStalled ==
    (Classifying /\ \E i \in 1..Len(reqs) : reqs[i] = HealthCheck)
        => ENABLED root

\* What does hold: a classification of the consumer callback, which runs on
\* the executor thread, leaves a waiting GET / servable.
C12_ConsumerDoesNotStall ==
    (/\ pc = "categorize"
     /\ loop.handler # "categorize_text_request"
     /\ \E i \in 1..Len(reqs) : reqs[i] = HealthCheck)
        => ENABLED root

\* C13: POST /categorize with an empty transcription is answered 500 with the
\* error message in detail and without invoking the classifier, and every
\* exception raised while handling POST /categorize is answered 500 with its
\* message in detail.
C13_PostFailureIs500 ==
    resp.method = "POST" =>
        /\ resp.transcription = "" =>
              /\ resp.status = 500
              /\ resp.detail = "Input text cannot be empty"
              /\ ~resp.invoked
        /\ resp.raised # None =>
              /\ resp.status = 500
              /\ resp.detail = ExceptionText([status |-> resp.raised])

\* An empty transcription and a failed classification were both answered.
C13_Witness ==
    /\ resp.n = 2
    /\ resp.method = "POST"
    /\ resp.raised = "OracleError"
    /\ resp.status = 500
    /\ oracleCalls >= 1

(***************************************************************************)
(* Properties of the Categorizer, checked under SpecCat.                   *)
(***************************************************************************)
CallDone == ret.status # "pending"

\* C6: a call with empty or absent text, whatever its tags, category,
\* candidate labels and top_k, fails with ValueError and the classifier is
\* not invoked.
C6_EmptyTextFailsBeforeOracle ==
    (CallDone /\ args.text \in {None, ""}) =>
        /\ ret.status = "ValueError"
        /\ ~ret.invoked
        /\ oracleCalls = 0
        /\ ret.result = <<>>

C6_Witness ==
    /\ CallDone
    /\ args.text = ""
    /\ args.tags = <<"IA", "">>
    /\ args.category = "Tecnologia"
    /\ args.candidate_labels.given
    /\ ret.status = "ValueError"

\* Position of the first occurrence of x in s (0 when absent).
FirstIndex(s, x) ==
    IF x \in Range(s) THEN CHOOSE i \in 1..Len(s) :
                              s[i] = x /\ \A j \in 1..i - 1 : s[j] # x
    ELSE 0

\* C7: from a duplicate-free starting sequence the assembled label list has
\* no duplicates, keeps the starting sequence as its prefix, holds exactly the
\* start, the non-empty category and the tags, has a new category right after
\* the prefix and then the new tags in iteration order, and equals the start
\* when category and tags are all present already.
C7_LabelSetAssembly ==
    CallDone =>
        LET start == IF args.candidate_labels.given
                     THEN args.candidate_labels.list ELSE DefaultLabels
            cat == args.category
            tags == args.tags
            out == ret.labels
            n == Len(start)
            hasCat == cat \notin {None, ""}
            newCat == hasCat /\ cat \notin Range(start)
            firstTag == IF newCat THEN n + 2 ELSE n + 1
        IN  /\ NoDuplicates(out)
            /\ Len(out) >= n
            /\ SubSeq(out, 1, n) = start
            /\ Range(out) = Range(start) \cup (IF hasCat THEN {cat} ELSE {})
                                         \cup Range(tags)
            /\ newCat => (Len(out) > n /\ out[n + 1] = cat)
            /\ \A i, j \in firstTag..Len(out) :
                  i < j => /\ FirstIndex(tags, out[i]) > 0
                           /\ FirstIndex(tags, out[i]) < FirstIndex(tags, out[j])
            /\ (~newCat /\ Range(tags) \subseteq Range(start)) => out = start

C7_Witness ==
    /\ CallDone
    /\ ~args.candidate_labels.given
    /\ args.category = "IA"
    /\ args.tags = <<"IA", "">>
    /\ ret.labels = <<"Esports", "True Crime", "IA", "">>

C8_Pairing ==
    /\ \A i \in 1..Len(ret.result) :
          ret.result[i] = [category |-> ret.oracle.labels[i],
                           score |-> ret.oracle.scores[i]]
    /\ \A i \in 1..Len(ret.result) - 1 :
          ret.result[i].score >= ret.result[i + 1].score
    /\ args.top_k > Len(ret.oracle.labels) =>
          Len(ret.result) = Len(ret.oracle.labels)

CallerListAfter == ret.labels

\* C15: a call leaves the caller-supplied candidate_labels unchanged, also when
\* it then fails on empty text.
C15_NoSideEffects ==
    (CallDone /\ args.candidate_labels.given)
        => CallerListAfter = args.candidate_labels.list

(***************************************************************************)
(* Properties of store_categorization, checked under SpecStore.            *)
(***************************************************************************)
NamedEntries(entries) ==
    {k \in 1..Len(entries) : entries[k] \notin {None, ""}}

HasName(c, name) ==
    \E k \in NamedEntries(c.entries) : c.entries[k] = name

LinkRows(cid, rid) ==
    {k \in 1..Len(links) :
        links[k] = [categorization_id |-> cid, category_id |-> rid]}

\* C9: whatever the interleaving of the writers, the category table holds
\* one row per distinct name (and a row for every name of a committed event),
\* and two committed events that both contain a name each have their link row
\* to that one category row.
C9_OneCategoryRowPerName ==
    /\ \A r1, r2 \in category : (r1.name = r2.name \/ r1.id = r2.id) => r1 = r2
    /\ \A c \in categorization : \A k \in NamedEntries(c.entries) :
          \E r \in category : r.name = c.entries[k]
    /\ \A c1, c2 \in categorization : \A r \in category :
          (c1 # c2 /\ HasName(c1, r.name) /\ HasName(c2, r.name)) =>
              /\ Cardinality(LinkRows(c1.id, r.id)) = 1
              /\ Cardinality(LinkRows(c2.id, r.id)) = 1

C9_Witness ==
    /\ \E c1, c2 \in categorization :
          c1 # c2 /\ HasName(c1, "A") /\ HasName(c2, "A")
    /\ Cardinality({r \in category : r.name = "A"}) = 1
    /\ Cardinality({k \in 1..Len(links) :
                       \E r \in category :
                           r.name = "A" /\ links[k].category_id = r.id}) = 2

\* Every committed categorization row has one link row per named entry of its
\* result, and every link row joins a committed categorization row to a
\* committed category row.
C10_Linked ==
    /\ \A c \in categorization :
          /\ \A k \in NamedEntries(c.entries) :
                \E r \in category :
                    /\ r.name = c.entries[k]
                    /\ LinkRows(c.id, r.id) # {}
          /\ Cardinality({k \in 1..Len(links) :
                             links[k].categorization_id = c.id})
                = Cardinality(NamedEntries(c.entries))
    /\ \A k \in 1..Len(links) :
          /\ \E c \in categorization : c.id = links[k].categorization_id
          /\ \E r \in category : r.id = links[k].category_id

\* A step of a call that is not its successful commit leaves the three
\* tables as they were.
C10_OnlyCommitWrites ==
    \A w \in Writers :
        (tx'[w] # tx[w] /\ ~(tx'[w].committed /\ ~tx[w].committed)) =>
            UNCHANGED <<categorization, category, links>>

\* C10: store_categorization is all-or-nothing: a call in which a step fails
\* leaves the categorization, category and link tables as they were, and each
\* committed categorization row has its link rows.
C10_AllOrNothing == []C10_Linked /\ [][C10_OnlyCommitWrites]_vars

C10_Witness ==
    \E w \in Writers :
        /\ tx[w].pc = "returned"
        /\ tx[w].error
        /\ tx[w].catzId # 0
        /\ tx[w].newCats # {}
        /\ tx[w].pendLinks # <<>>
        /\ \A c \in categorization : c.id # tx[w].catzId
        /\ tx[w].newCats \cap category = {}

====
